---- MODULE Spec2Model ----
(***************************************************************************)
(* State-machine model of libgeosuitepvt's PVTParser (parser.py).          *)
(*                                                                         *)
(* Python strings are modelled as sequences of one-character strings, so   *)
(* that strip, split, find, replace, lower and the numeric and datetime    *)
(* grammars are computed character by character, as the code computes      *)
(* them.  Python values are records tagged by the field k.                 *)
(***************************************************************************)
EXTENDS Integers, Sequences, FiniteSets, TLC

(***************************************************************************)
(* Characters                                                              *)
(***************************************************************************)
Digits == <<"0", "1", "2", "3", "4", "5", "6", "7", "8", "9">>

UpperChars == <<"A", "B", "C", "D", "E", "F", "G", "H", "I", "J", "K", "L", "M",
                "N", "O", "P", "Q", "R", "S", "T", "U", "V", "W", "X", "Y", "Z">>

LowerChars == <<"a", "b", "c", "d", "e", "f", "g", "h", "i", "j", "k", "l", "m",
                "n", "o", "p", "q", "r", "s", "t", "u", "v", "w", "x", "y", "z">>

Range(s) == {s[i] : i \in 1..Len(s)}

DigitSet == Range(Digits)

IsDigit(c) == c \in DigitSet

DigitVal(c) == (CHOOSE i \in 1..10 : Digits[i] = c) - 1

\* str.isspace for the characters of the model's alphabet
IsSpace(c) == c \in {" ", "\t", "\n", "\r", "\f"}

\* str.isalnum for the characters of the model's alphabet
IsAlnum(c) == c \in DigitSet \cup Range(UpperChars) \cup Range(LowerChars)

LowerChar(c) ==
    IF c \in Range(UpperChars)
    THEN LowerChars[CHOOSE i \in 1..26 : UpperChars[i] = c]
    ELSE c

(***************************************************************************)
(* str methods                                                             *)
(***************************************************************************)
\* str.lower
Lower(s) == SubSeq([i \in 1..Len(s) |-> LowerChar(s[i])], 1, Len(s))

\* index of the first non-space character at or after i (Len(s)+1 if none)
RECURSIVE LSkip(_, _)
LSkip(s, i) == IF i > Len(s) THEN i ELSE IF IsSpace(s[i]) THEN LSkip(s, i + 1) ELSE i

\* index of the last non-space character at or before j (0 if none)
RECURSIVE RSkip(_, _)
RSkip(s, j) == IF j < 1 THEN 0 ELSE IF IsSpace(s[j]) THEN RSkip(s, j - 1) ELSE j

\* str.strip
Strip(s) == SubSeq(s, LSkip(s, 1), RSkip(s, Len(s)))

\* c in s
Contains(s, c) == \E i \in 1..Len(s) : s[i] = c

\* str.rfind of a single character, as a 0-based index, -1 if absent
RFind(s, c) ==
    IF Contains(s, c)
    THEN (CHOOSE i \in 1..Len(s) : s[i] = c /\ \A j \in (i + 1)..Len(s) : s[j] # c) - 1
    ELSE -1

\* str.find of a single character, as a 0-based index, -1 if absent
Find(s, c) ==
    IF Contains(s, c)
    THEN (CHOOSE i \in 1..Len(s) : s[i] = c /\ \A j \in 1..(i - 1) : s[j] # c) - 1
    ELSE -1

\* str.startswith
StartsWith(s, p) == Len(s) >= Len(p) /\ SubSeq(s, 1, Len(p)) = p

\* the least index j >= i with s[j] = c, or 0 if there is none
NextIndex(s, c, i) ==
    IF \E j \in i..Len(s) : s[j] = c
    THEN CHOOSE j \in i..Len(s) : s[j] = c /\ \A x \in i..(j - 1) : s[x] # c
    ELSE 0

\* str.split(sep) for a single-character separator: always at least one part
RECURSIVE SplitFrom(_, _, _)
SplitFrom(s, sep, start) ==
    LET j == NextIndex(s, sep, start)
    IN  IF j = 0 THEN <<SubSeq(s, start, Len(s))>>
        ELSE <<SubSeq(s, start, j - 1)>> \o SplitFrom(s, sep, j + 1)

Split(s, sep) == SplitFrom(s, sep, 1)

\* r.join(parts)
RECURSIVE JoinFrom(_, _, _)
JoinFrom(parts, r, i) ==
    IF i > Len(parts) THEN <<>>
    ELSE IF i = Len(parts) THEN parts[i]
    ELSE parts[i] \o r \o JoinFrom(parts, r, i + 1)

Join(parts, r) == JoinFrom(parts, r, 1)

\* str.replace(c, r) for a single character c and a string r
Replace(s, c, r) == Join(Split(s, c), r)

\* str.split(sep, 1) of a string that contains sep: <<before, after>>
SplitOnce(s, sep) ==
    LET i == Find(s, sep) + 1
    IN  <<SubSeq(s, 1, i - 1), SubSeq(s, i + 1, Len(s))>>

LineBreaks == {"\n", "\r", "\f"}

\* the least index j >= i of a line boundary, or 0 if there is none
NextBreak(s, i) ==
    IF \E j \in i..Len(s) : s[j] \in LineBreaks
    THEN CHOOSE j \in i..Len(s) :
             s[j] \in LineBreaks /\ \A x \in i..(j - 1) : s[x] \notin LineBreaks
    ELSE 0

\* str.splitlines for the line boundaries \n, \r, \r\n and \f; the lines come
\* without their boundary, so the rstrip("\n") that follows changes nothing
RECURSIVE SplitLinesFrom(_, _)
SplitLinesFrom(s, start) ==
    LET j == NextBreak(s, start)
    IN  IF start > Len(s) THEN <<>>
        ELSE IF j = 0 THEN <<SubSeq(s, start, Len(s))>>
        ELSE <<SubSeq(s, start, j - 1)>>
             \o SplitLinesFrom(s, IF s[j] = "\r" /\ j < Len(s) /\ s[j + 1] = "\n"
                                  THEN j + 2 ELSE j + 1)

SplitLines(s) == SplitLinesFrom(s, 1)

(***************************************************************************)
(* Python values                                                           *)
(***************************************************************************)
None == [k |-> "None"]

\* a str where None is possible too (Optional[str]); a plain str is the bare sequence
Str(s) == [k |-> "str", s |-> s]

\* a raised ValueError, as the outcome of a call that the caller may catch
ValueError == [k |-> "ValueError"]

\* a finite float: the decimal m * 10^e, with m not divisible by 10 (0 is 0 * 10^0)
Float(m, e) == [k |-> "float", m |-> m, e |-> e]

NaN == [k |-> "nan"]

Inf(sign) == [k |-> "inf", sign |-> sign]

(***************************************************************************)
(* float(str)                                                              *)
(***************************************************************************)
AllDigits(s) == \A i \in 1..Len(s) : IsDigit(s[i])

\* the value of a digit string; values above cap saturate at cap
RECURSIVE DigitsToIntFrom(_, _, _, _)
DigitsToIntFrom(d, i, acc, cap) ==
    IF i > Len(d) THEN acc
    ELSE LET v == acc * 10 + DigitVal(d[i])
         IN  IF v >= cap THEN cap ELSE DigitsToIntFrom(d, i + 1, v, cap)

\* largest mantissa the model computes exactly
MantissaCap == 200000000

\* exponents saturate here, far beyond the range of a double
ExponentCap == 100000

RECURSIVE Pow10(_)
Pow10(n) == IF n <= 0 THEN 1 ELSE 10 * Pow10(n - 1)

RECURSIVE NumDigits(_)
NumDigits(m) == IF m < 10 THEN 1 ELSE 1 + NumDigits(m \div 10)

\* the first eight significant digits of m > 0
Lead8(m) ==
    LET nd == NumDigits(m)
    IN  IF nd <= 8 THEN m * Pow10(8 - nd) ELSE m \div Pow10(nd - 8)

\* m * 10^e with the trailing zeros of m moved into e
RECURSIVE Normalize(_, _)
Normalize(m, e) ==
    IF m = 0 THEN Float(0, 0)
    ELSE IF m % 10 = 0 THEN Normalize(m \div 10, e + 1)
    ELSE Float(m, e)

\* the double nearest to sign * m * 10^e: overflow gives an infinity (DBL_MAX is
\* 1.7976931348623157e308), underflow gives 0.0 (half the least subnormal
\* is 2.4703282e-324)
ToDouble(sign, m, e) ==
    LET n  == Normalize(m, e)
        ae == NumDigits(n.m) + n.e
    IN  IF n.m = 0 THEN n
        ELSE IF ae > 309 \/ (ae = 309 /\ Lead8(n.m) >= 17976932) THEN Inf(sign)
        ELSE IF ae < -323 \/ (ae = -323 /\ Lead8(n.m) < 24703283) THEN Float(0, 0)
        ELSE Float(sign * n.m, n.e)

\* the exponent part after "e": an optional sign and at least one digit
ExponentOk(x) ==
    LET d == IF Len(x) > 0 /\ x[1] \in {"+", "-"} THEN Tail(x) ELSE x
    IN  Len(d) > 0 /\ AllDigits(d)

ExponentVal(x) ==
    IF x[1] = "-" THEN 0 - DigitsToIntFrom(Tail(x), 1, 0, ExponentCap)
    ELSE IF x[1] = "+" THEN DigitsToIntFrom(Tail(x), 1, 0, ExponentCap)
    ELSE DigitsToIntFrom(x, 1, 0, ExponentCap)

\* an unsigned decimal numeral: digits [. digits] [e [sign] digits], with at
\* least one digit in the mantissa
ParseDecimal(sign, b) ==
    LET ePos  == Find(b, "e") + 1
        mant  == IF ePos > 0 THEN SubSeq(b, 1, ePos - 1) ELSE b
        expo  == IF ePos > 0 THEN SubSeq(b, ePos + 1, Len(b)) ELSE <<>>
        dPos  == Find(mant, ".") + 1
        ip    == IF dPos > 0 THEN SubSeq(mant, 1, dPos - 1) ELSE mant
        fp    == IF dPos > 0 THEN SubSeq(mant, dPos + 1, Len(mant)) ELSE <<>>
    IN  IF ~(AllDigits(ip) /\ AllDigits(fp) /\ Len(ip) + Len(fp) > 0) THEN ValueError
        ELSE IF ePos > 0 /\ ~ExponentOk(expo) THEN ValueError
        ELSE ToDouble(sign,
                      DigitsToIntFrom(ip \o fp, 1, 0, MantissaCap),
                      (IF ePos > 0 THEN ExponentVal(expo) ELSE 0) - Len(fp))

\* underscores are accepted only between two digits
UnderscoresOk(t) ==
    \A i \in 1..Len(t) :
        t[i] = "_" => (i > 1 /\ i < Len(t) /\ IsDigit(t[i - 1]) /\ IsDigit(t[i + 1]))

Inf3 == <<"i", "n", "f">>

Inf8 == <<"i", "n", "f", "i", "n", "i", "t", "y">>

Nan3 == <<"n", "a", "n">>

\* float(s) for a str s: a float, an infinity, a NaN or a ValueError
PyFloat(s) ==
    LET t    == Strip(s)
        u    == Lower(Replace(t, "_", <<>>))
        sgn  == IF Len(u) > 0 /\ u[1] = "-" THEN -1 ELSE 1
        body == IF Len(u) > 0 /\ u[1] \in {"+", "-"} THEN Tail(u) ELSE u
    IN  IF ~UnderscoresOk(t) THEN ValueError
        ELSE IF body = Inf3 \/ body = Inf8 THEN Inf(sgn)
        ELSE IF body = Nan3 THEN NaN
        ELSE ParseDecimal(sgn, body)

\* math.isfinite
IsFinite(number) == number.k = "float"

(***************************************************************************)
(* PVTParser._coerce_float, for Str(s) or None                             *)
(***************************************************************************)
Comma == ","

Dot == "."

\* the clean-up with the comparison of the two positions turned round: the
\* separator that occurs first is taken for the decimal separator
CleanNumberFirstSeparator(value) ==
    LET cleaned == Strip(value)
    IN  IF Contains(cleaned, Comma) /\ Contains(cleaned, Dot)
        THEN IF RFind(cleaned, Comma) < RFind(cleaned, Dot)
             THEN Replace(Replace(cleaned, Dot, <<>>), Comma, <<Dot>>)
             ELSE Replace(cleaned, Comma, <<>>)
        ELSE IF Contains(cleaned, Comma) /\ ~Contains(cleaned, Dot)
             THEN Replace(cleaned, Comma, <<Dot>>)
             ELSE cleaned

\* the locale clean-up of the string
CleanNumber(value) ==
    LET cleaned == Strip(value)
    IN  IF Contains(cleaned, Comma) /\ Contains(cleaned, Dot)
        THEN IF RFind(cleaned, Comma) > RFind(cleaned, Dot)
             THEN Replace(Replace(cleaned, Dot, <<>>), Comma, <<Dot>>)
             ELSE Replace(cleaned, Comma, <<>>)
        ELSE IF Contains(cleaned, Comma) /\ ~Contains(cleaned, Dot)
             THEN Replace(cleaned, Comma, <<Dot>>)
             ELSE cleaned

\* an except clause that names TypeError alone catches nothing float raises on a
\* string
CatchesTypeErrorOnly(exc) == FALSE

\* except (TypeError, ValueError): whether the clause catches what float raised
CatchesFloatError(exc) == exc = ValueError

\* an exception that is caught nowhere leaves the function in place of its result
CoerceFloat(value) ==
    IF value = None THEN None
    ELSE LET number == PyFloat(CleanNumber(value.s))
         IN  IF number = ValueError
             THEN (IF CatchesFloatError(number) THEN None ELSE number)
             ELSE IF ~IsFinite(number) THEN None
             ELSE number

(***************************************************************************)
(* datetime                                                                *)
(***************************************************************************)
\* a datetime; tz is None for a naive one, else the UTC offset in minutes
DateTime(Y, M, D, h, mi, sec, us, tz) ==
    [k |-> "datetime", Y |-> Y, M |-> M, D |-> D, h |-> h, mi |-> mi, s |-> sec,
     us |-> us, tz |-> tz]

TzOffset(minutes) == [k |-> "tz", min |-> minutes]

IsLeap(Y) == (Y % 4 = 0 /\ Y % 100 # 0) \/ Y % 400 = 0

DaysInMonth(Y, M) ==
    IF M = 2 THEN (IF IsLeap(Y) THEN 29 ELSE 28)
    ELSE IF M \in {4, 6, 9, 11} THEN 30 ELSE 31

\* the datetime constructor: ValueError outside the calendar or the clock
MakeDateTime(Y, M, D, h, mi, sec, us, tz) ==
    IF Y >= 1 /\ Y <= 9999 /\ M >= 1 /\ M <= 12 /\ D >= 1 /\ D <= DaysInMonth(Y, M)
       /\ h >= 0 /\ h <= 23 /\ mi >= 0 /\ mi <= 59 /\ sec >= 0 /\ sec <= 59
    THEN DateTime(Y, M, D, h, mi, sec, us, tz)
    ELSE ValueError

IntOf(d) == DigitsToIntFrom(d, 1, 0, MantissaCap)

\* a strptime numeric field of one or two digits with a value in lo..hi
\* (%m: 1[0-2]|0[1-9]|[1-9], %H: 2[0-3]|[0-1]\d|\d, %M: [0-5]\d|\d,
\*  %S: 6[0-1]|[0-5]\d|\d)
FieldOk(tok, lo, hi) ==
    Len(tok) \in {1, 2} /\ AllDigits(tok) /\ IntOf(tok) >= lo /\ IntOf(tok) <= hi

\* %d: 3[0-1]|[1-2]\d|0[1-9]|[1-9]| [1-9]
DayOk(tok) ==
    \/ FieldOk(tok, 1, 31)
    \/ Len(tok) = 2 /\ tok[1] = " " /\ IsDigit(tok[2]) /\ tok[2] # "0"

DayVal(tok) == IF tok[1] = " " THEN DigitVal(tok[2]) ELSE IntOf(tok)

\* the end of the %d field that starts at i: a space and a digit, or a run of digits
RECURSIVE DigitRunEnd(_, _)
DigitRunEnd(s, i) ==
    IF i <= Len(s) /\ IsDigit(s[i]) THEN DigitRunEnd(s, i + 1) ELSE i - 1

DayEnd(s, i) ==
    IF i <= Len(s) /\ s[i] = " " THEN i + 1 ELSE DigitRunEnd(s, i)

\* %H:%M or %H:%M:%S, as the fields between the colons
StrptimeClock(Y, M, D, fields, withSeconds) ==
    IF Len(fields) # (IF withSeconds THEN 3 ELSE 2) THEN ValueError
    ELSE IF ~(/\ FieldOk(fields[1], 0, 23)
              /\ FieldOk(fields[2], 0, 59)
              /\ withSeconds => FieldOk(fields[3], 0, 61)) THEN ValueError
    ELSE MakeDateTime(Y, M, D, IntOf(fields[1]), IntOf(fields[2]),
                      IF withSeconds THEN IntOf(fields[3]) ELSE 0, 0, None)

\* %d, the whitespace the blank of the format matches (one character or more)
\* and the clock; rest is what follows the second "-", dEnd the end of %d in it
StrptimeDay(Y, M, rest, dEnd, withSeconds) ==
    IF ~(dEnd >= 1 /\ dEnd < Len(rest) /\ DayOk(SubSeq(rest, 1, dEnd))) THEN ValueError
    ELSE IF ~IsSpace(rest[dEnd + 1]) THEN ValueError
    ELSE StrptimeClock(Y, M, DayVal(SubSeq(rest, 1, dEnd)),
                       Split(SubSeq(rest, LSkip(rest, dEnd + 1), Len(rest)), ":"),
                       withSeconds)

\* %Y-%m-, as the parts between the hyphens: no field after %m holds a hyphen
StrptimeDate(parts, withSeconds) ==
    IF Len(parts) # 3 THEN ValueError
    ELSE IF ~(Len(parts[1]) = 4 /\ AllDigits(parts[1]) /\ FieldOk(parts[2], 1, 12))
         THEN ValueError
    ELSE StrptimeDay(IntOf(parts[1]), IntOf(parts[2]), parts[3], DayEnd(parts[3], 1),
                     withSeconds)

\* datetime.strptime(s, "%Y-%m-%d %H:%M") when withSeconds is FALSE and
\* datetime.strptime(s, "%Y-%m-%d %H:%M:%S") when it is TRUE: the whole of s
\* must match the format
Strptime(s, withSeconds) == StrptimeDate(Split(s, "-"), withSeconds)

\* two digits exactly
Two(s, i) == i + 1 <= Len(s) /\ IsDigit(s[i]) /\ IsDigit(s[i + 1])

TwoVal(s, i) == DigitVal(s[i]) * 10 + DigitVal(s[i + 1])

\* the clock part HH[:MM[:SS[.fff[fff]]]] of an ISO string
IsoClockOk(t) ==
    /\ Len(t) \in {2, 5, 8, 12, 15}
    /\ Two(t, 1)
    /\ Len(t) >= 5 => (t[3] = ":" /\ Two(t, 4))
    /\ Len(t) >= 8 => (t[6] = ":" /\ Two(t, 7))
    /\ Len(t) >= 12 => (t[9] = "." /\ AllDigits(SubSeq(t, 10, Len(t))))

IsoMicros(t) ==
    IF Len(t) = 12 THEN IntOf(SubSeq(t, 10, 12)) * 1000
    ELSE IF Len(t) = 15 THEN IntOf(SubSeq(t, 10, 15))
    ELSE 0

\* the UTC offset HH:MM that follows the sign
IsoOffsetOk(z) == Len(z) = 5 /\ Two(z, 1) /\ z[3] = ":" /\ Two(z, 4)
                  /\ TwoVal(z, 1) <= 23 /\ TwoVal(z, 4) <= 59

\* the place of the sign of the UTC offset in the time string, 0 if it has none
IsoZonePos(tstr) ==
    IF Contains(tstr, "-") THEN Find(tstr, "-") + 1 ELSE Find(tstr, "+") + 1

IsoZone(sign, zone) ==
    TzOffset((IF sign = "-" THEN -1 ELSE 1) * (TwoVal(zone, 1) * 60 + TwoVal(zone, 4)))

\* the clock of the time string and, when zPos > 0, the offset after the sign
IsoClockZone(Y, M, D, clock, zPos, sign, zone) ==
    IF ~IsoClockOk(clock) THEN ValueError
    ELSE IF zPos > 0 /\ ~IsoOffsetOk(zone) THEN ValueError
    ELSE MakeDateTime(Y, M, D, TwoVal(clock, 1),
                      IF Len(clock) >= 5 THEN TwoVal(clock, 4) ELSE 0,
                      IF Len(clock) >= 8 THEN TwoVal(clock, 7) ELSE 0,
                      IsoMicros(clock),
                      IF zPos > 0 THEN IsoZone(sign, zone) ELSE None)

\* the time string after the separator: the clock, then the offset from zPos on
IsoTime(Y, M, D, tstr, zPos) ==
    IF zPos > 0
    THEN IsoClockZone(Y, M, D, SubSeq(tstr, 1, zPos - 1), zPos, tstr[zPos],
                      SubSeq(tstr, zPos + 1, Len(tstr)))
    ELSE IsoClockZone(Y, M, D, tstr, 0, "+", <<>>)

\* datetime.fromisoformat(s) for YYYY-MM-DD[*HH[:MM[:SS[.fff[fff]]]][+HH:MM]],
\* the format every Python 3 version with fromisoformat reads the same way
\* (from 3.11 on it reads further ISO 8601 forms, which the inputs here avoid)
FromIsoFormat(s) ==
    IF ~(Len(s) >= 10 /\ AllDigits(SubSeq(s, 1, 4)) /\ s[5] = "-" /\ Two(s, 6)
         /\ s[8] = "-" /\ Two(s, 9)) THEN ValueError
    ELSE IF Len(s) = 10
         THEN MakeDateTime(IntOf(SubSeq(s, 1, 4)), TwoVal(s, 6), TwoVal(s, 9),
                           0, 0, 0, 0, None)
    ELSE IF Len(s) = 11 THEN ValueError
    ELSE IsoTime(IntOf(SubSeq(s, 1, 4)), TwoVal(s, 6), TwoVal(s, 9),
                 SubSeq(s, 12, Len(s)), IsoZonePos(SubSeq(s, 12, Len(s))))

(***************************************************************************)
(* PVTParser._coerce_datetime, _parse_datetime_value, _parse_datetime_parts *)
(***************************************************************************)
\* for a str: datetime.fromisoformat inside try/except ValueError
CoerceDatetime(value) ==
    LET d == FromIsoFormat(value)
    IN  IF d = ValueError THEN None ELSE d

\* for Str(s) or None
ParseDatetimeValue(value) ==
    IF value = None \/ value.s = <<>> THEN None
    ELSE LET first  == Strptime(Strip(value.s), FALSE)
             second == Strptime(Strip(value.s), TRUE)
         IN  IF first # ValueError THEN first
             ELSE IF second # ValueError THEN second
             ELSE CoerceDatetime(value.s)

\* for two str
ParseDatetimeParts(date_value, time_value) ==
    IF date_value = <<>> \/ time_value = <<>> THEN None
    ELSE ParseDatetimeValue(Str(Strip(date_value) \o <<" ">> \o Strip(time_value)))

(***************************************************************************)
(* pathlib.Path(file_path).name and .stem, for "/"-separated paths          *)
(***************************************************************************)
PathName(file_path) == SubSeq(file_path, RFind(file_path, "/") + 2, Len(file_path))

\* the name without its last suffix; a leading or a trailing dot starts no suffix
PathStem(file_path) ==
    LET name == PathName(file_path)
        i    == RFind(name, ".")
    IN  IF 0 < i /\ i < Len(name) - 1 THEN SubSeq(name, 1, i) ELSE name

(***************************************************************************)
(* PVTParser._normalize_key and _parse_metadata_line                       *)
(***************************************************************************)
\* the key without its non-alphanumeric characters, its case kept
NormalizeKeyKeepsCase(value) == SelectSeq(value, IsAlnum)

\* "".join(ch for ch in value.lower() if ch.isalnum())
NormalizeKey(value) == SelectSeq(Lower(value), IsAlnum)

\* [part.strip() for part in line.split(",") if part.strip()]
RECURSIVE StrippedPartsFrom(_, _)
StrippedPartsFrom(raw, i) ==
    IF i > Len(raw) THEN <<>>
    ELSE (IF Strip(raw[i]) # <<>> THEN <<Strip(raw[i])>> ELSE <<>>)
         \o StrippedPartsFrom(raw, i + 1)

\* tokens separated by semicolons
MetadataSeparatorSemicolon == ";"

\* line.split(","): the separator of the tokens of the metadata line
MetadataSeparator == ","

MetadataParts(line) == StrippedPartsFrom(Split(line, MetadataSeparator), 1)

\* values[key] = value on a dict, modelled as a function from keys to values
DictSet(d, key, value) ==
    [x \in DOMAIN d \cup {key} |-> IF x = key THEN value ELSE d[x]]

\* dict.get: None when the key is absent
DictGet(d, key) == IF key \in DOMAIN d THEN Str(d[key]) ELSE None

\* the loop over the parts that fills the dict values
RECURSIVE MetadataValuesFrom(_, _, _)
MetadataValuesFrom(parts, i, values) ==
    IF i > Len(parts) THEN values
    ELSE IF ~Contains(parts[i], ":") THEN MetadataValuesFrom(parts, i + 1, values)
    ELSE LET kv == SplitOnce(parts[i], ":")
         IN  MetadataValuesFrom(parts, i + 1,
                                DictSet(values, NormalizeKey(kv[1]), Strip(kv[2])))

MetadataValues(line) == MetadataValuesFrom(MetadataParts(line), 1, <<>>)

\* a or b on Optional[str]: a when it is a non-empty str, else b
OrElse(a, b) == IF a # None /\ a.s # <<>> THEN a ELSE b

KeySerieNumber == <<"s", "e", "r", "i", "e", "n", "u", "m", "b", "e", "r">>

KeyReadingTime == <<"r", "e", "a", "d", "i", "n", "g", "t", "i", "m", "e">>

KeyMeasurePoint == <<"m", "e", "a", "s", "u", "r", "e", "p", "o", "i", "n", "t">>

KeyInstallationDepth ==
    <<"i", "n", "s", "t", "a", "l", "l", "a", "t", "i", "o", "n", "d", "e", "p", "t", "h">>

KeyInstallationDepthM == KeyInstallationDepth \o <<"m">>

\* values.get("measurepoint", stem): the stem only when the key is absent
MeasurePointDefaultOnly(values, file_path) ==
    IF KeyMeasurePoint \in DOMAIN values
    THEN values[KeyMeasurePoint]
    ELSE PathStem(file_path)

\* values.get("measurepoint") or Path(file_path).stem
MeasurePoint(values, file_path) ==
    OrElse(DictGet(values, KeyMeasurePoint), Str(PathStem(file_path))).s

\* the PiezometerMetadata that _parse_metadata_line returns
ParseMetadataLine(line, file_path) ==
    LET values == MetadataValues(line)
    IN  [investigation_point |-> MeasurePoint(values, file_path),
         series_number       |-> DictGet(values, KeySerieNumber),
         reading_time        |-> ParseDatetimeValue(DictGet(values, KeyReadingTime)),
         installation_depth  |->
             CoerceFloat(OrElse(DictGet(values, KeyInstallationDepthM),
                                DictGet(values, KeyInstallationDepth))),
         input_filename      |-> Str(PathName(file_path))]

(***************************************************************************)
(* PVTParser._parse_text_file                                              *)
(***************************************************************************)
HEADER_PREFIX == <<"d", "a", "t", "e">>

\* the first line with non-whitespace content, stripped; "" if there is none
RECURSIVE MetaLineFrom(_, _)
MetaLineFrom(lines, i) ==
    IF i > Len(lines) THEN <<>>
    ELSE IF Strip(lines[i]) # <<>> THEN Strip(lines[i])
    ELSE MetaLineFrom(lines, i + 1)

MetaLine(lines) == MetaLineFrom(lines, 1)

IsHeaderLine(line) == StartsWith(Lower(Strip(line)), HEADER_PREFIX)

\* the 0-based index of the first header line; -1 stands for None
RECURSIVE HeaderIndexFrom(_, _)
HeaderIndexFrom(lines, idx) ==
    IF idx >= Len(lines) THEN -1
    ELSE IF IsHeaderLine(lines[idx + 1]) THEN idx
    ELSE HeaderIndexFrom(lines, idx + 1)

\* a scan for the header that leaves out the first line
HeaderIndexAfterFirstLine(lines) == HeaderIndexFrom(lines, 1)

HeaderIndex(lines) == HeaderIndexFrom(lines, 0)

\* the test on the line after the header, which is stripped before it is tested
IsUnitLine(line) ==
    LET unit_line == Strip(line)
    IN  unit_line # <<>> /\ (Contains(unit_line, "(") \/ StartsWith(unit_line, <<"\t">>))

\* the 0-based index of the first data line, given a header
DataStart(lines, header_index) ==
    LET data_start == header_index + 1
    IN  IF data_start < Len(lines) /\ IsUnitLine(lines[data_start + 1])
        THEN data_start + 1
        ELSE data_start

Reading(reading_time, pressure, temperature, battery) ==
    [reading_time  |-> reading_time,
     pressure_mh2o |-> pressure,
     temperature_c |-> temperature,
     battery_pct   |-> battery]

\* the loop body without its test of the timestamp
ParseRowKeepsNull(line) ==
    LET parts        == Split(line, "\t")
        reading_time == ParseDatetimeParts(parts[1], parts[2])
    IN  IF Strip(line) = <<>> THEN <<>>
        ELSE IF Len(parts) < 2 THEN <<>>
        ELSE <<Reading(reading_time,
                       IF Len(parts) > 2 THEN CoerceFloat(Str(parts[3])) ELSE None,
                       IF Len(parts) > 3 THEN CoerceFloat(Str(parts[4])) ELSE None,
                       IF Len(parts) > 4 THEN CoerceFloat(Str(parts[5])) ELSE None)>>

\* the loop body with 0.0 for a field the row does not have
ParseRowAbsentAsZero(line) ==
    LET parts        == Split(line, "\t")
        reading_time == ParseDatetimeParts(parts[1], parts[2])
    IN  IF Strip(line) = <<>> THEN <<>>
        ELSE IF Len(parts) < 2 THEN <<>>
        ELSE IF reading_time = None THEN <<>>
        ELSE <<Reading(reading_time,
                       IF Len(parts) > 2 THEN CoerceFloat(Str(parts[3])) ELSE Float(0, 0),
                       IF Len(parts) > 3 THEN CoerceFloat(Str(parts[4])) ELSE Float(0, 0),
                       IF Len(parts) > 4 THEN CoerceFloat(Str(parts[5])) ELSE Float(0, 0))>>

\* one pass of the loop over the data lines: the readings it appends (none or one)
ParseRow(line) ==
    LET parts        == Split(line, "\t")
        reading_time == ParseDatetimeParts(parts[1], parts[2])
    IN  IF Strip(line) = <<>> THEN <<>>
        ELSE IF Len(parts) < 2 THEN <<>>
        ELSE IF reading_time = None THEN <<>>
        ELSE <<Reading(reading_time,
                       IF Len(parts) > 2 THEN CoerceFloat(Str(parts[3])) ELSE None,
                       IF Len(parts) > 3 THEN CoerceFloat(Str(parts[4])) ELSE None,
                       IF Len(parts) > 4 THEN CoerceFloat(Str(parts[5])) ELSE None)>>

\* list.insert(0, ...): the new readings go to the front of the list
InsertFirst(readings, more) == more \o readings

\* list.append: the new readings go to the end of the list
Append2(readings, more) == readings \o more

\* for line in lines[data_start:], with data_start 0-based
RECURSIVE ReadingsFrom(_, _, _)
ReadingsFrom(lines, i, readings) ==
    IF i >= Len(lines) THEN readings
    ELSE ReadingsFrom(lines, i + 1, Append2(readings, ParseRow(lines[i + 1])))

\* the rest of _parse_text_file once the text is split into lines: its locals when
\* it returns; data_start is -1 when it was never bound (no header)
ParseLines(lines, file_path) ==
    LET meta_line    == MetaLine(lines)
        header_index == HeaderIndex(lines)
        data_start   == IF header_index # -1 THEN DataStart(lines, header_index) ELSE -1
    IN  [lines        |-> lines,
         meta_line    |-> meta_line,
         values       |-> MetadataValues(meta_line),
         metadata     |-> ParseMetadataLine(meta_line, file_path),
         header_index |-> header_index,
         data_start   |-> data_start,
         readings     |-> IF header_index # -1
                          THEN ReadingsFrom(lines, data_start, <<>>)
                          ELSE <<>>]

\* text.splitlines() of the text read from the file, and the rest
ParseTextFile(text, file_path) == ParseLines(SplitLines(text), file_path)

(***************************************************************************)
(* The inputs of the model: file contents, file paths, strings to coerce   *)
(***************************************************************************)
\* most lines of a structured file
MaxLines == 3

\* most numeric fields after date and time in a generated data row
MaxExtra == 3

\* most decoration characters inserted into a metadata key
MaxDecor == 1

\* longest generated string handed to the numeric coercion
MaxLen == 5

BlankLine ==
    <<" ">>

HeaderLine ==
    <<"D", "a", "t", "e", "\t", "T", "i", "m", "e">>

MetaLineB1 ==
    <<"M", "e", "a", "s", "u", "r", "e", "P", "o", "i", "n", "t", ":", " ", "B", "1">>

UnitsTabLine ==
    <<"\t", "\t", "m", "\t", "C", "\t", "%">>

UnitsParenLine ==
    <<"(", "m", ")", "\t", "(", "C", ")">>

RowA ==
    <<"2", "0", "2", "3", "-", "0", "5", "-", "0", "1", "\t", "1", "0", ":", "0", "5",
      ":", "0", "0", "\t", "1", "2", ",", "3", "\t", "8", ",", "1", "\t", "9", "5">>

RowB ==
    <<"2", "0", "2", "3", "-", "0", "4", "-", "3", "0", "\t", "0", "9", ":", "0", "0">>

RowBadDate ==
    <<"2", "0", "2", "3", "-", "0", "2", "-", "3", "0", "\t", "1", "0", ":", "0", "0",
      "\t", "1">>

RowAbc ==
    <<"2", "0", "2", "3", "-", "0", "5", "-", "0", "2", "\t", "1", "1", ":", "0", "0",
      "\t", "a", "b", "c", "\t", "1", "2", ",", "5">>

RowNoTime ==
    <<"2", "0", "2", "3", "-", "0", "5", "-", "0", "3", "\t">>

LinePool ==
    <<BlankLine, HeaderLine, MetaLineB1, UnitsTabLine, UnitsParenLine, RowA, RowB,
      RowBadDate, RowAbc, RowNoTime>>

\* the texts of at most MaxLines lines of the pool
StructuredTexts ==
    UNION {{Join([i \in 1..n |-> LinePool[f[i]]], <<"\n">>) :
               f \in [1..n -> 1..Len(LinePool)]} : n \in 0..MaxLines}

Date1 ==
    <<"2", "0", "2", "3", "-", "0", "5", "-", "0", "1">>

DateBad ==
    <<"2", "0", "2", "3", "-", "0", "2", "-", "3", "0">>

Time1 ==
    <<"1", "0", ":", "0", "5">>

Time2 ==
    <<"9", ":", "5", ":", "7">>

TimeBad ==
    <<"x">>

Field125 ==
    <<"1", "2", ",", "5">>

FieldAbc ==
    <<"a", "b", "c">>

FieldNaN ==
    <<"N", "a", "N">>

FieldThousands ==
    <<"1", ".", "2", "3", "4", ",", "5", "6">>

DatePool == {Date1, DateBad, <<>>}

TimePool == {Time1, Time2, TimeBad, <<>>}

FieldPool == {Field125, FieldAbc, FieldNaN, <<>>}

RECURSIVE SeqsUpTo(_, _)
SeqsUpTo(S, n) ==
    IF n = 0 THEN {<<>>}
    ELSE LET shorter == SeqsUpTo(S, n - 1)
         IN  shorter \cup {Append(q, x) : q \in {r \in shorter : Len(r) = n - 1}, x \in S}

\* a header and one data row: date, time and at most MaxExtra numeric fields,
\* or a date alone
RowTexts ==
    {HeaderLine \o <<"\n">> \o Join(<<d, t>> \o fs, <<"\t">>) :
        d \in DatePool, t \in TimePool, fs \in SeqsUpTo(FieldPool, MaxExtra)}
    \cup {HeaderLine \o <<"\n">> \o d : d \in DatePool}

MetaScenarioA ==
    <<"M", "e", "a", "s", "u", "r", "e", "P", "o", "i", "n", "t", ":", " ", "B", "H",
      "-", "1", ",", " ", "S", "e", "r", "i", "e", "N", "u", "m", "b", "e", "r", ":",
      " ", "1", "2", "3", ",", " ", "R", "e", "a", "d", "i", "n", "g", "T", "i", "m",
      "e", ":", " ", "2", "0", "2", "3", "-", "0", "5", "-", "0", "1", " ", "1", "0",
      ":", "0", "0">>

MetaDepthComma ==
    <<"I", "n", "s", "t", "a", "l", "l", "a", "t", "i", "o", "n", "D", "e", "p", "t",
      "h", ":", " ", "1", "2", ",", "5">>

MetaEmptyPoint ==
    <<"M", "e", "a", "s", "u", "r", "e", "P", "o", "i", "n", "t", ":">>

MetaNoPoint ==
    <<"S", "e", "r", "i", "e", "N", "u", "m", "b", "e", "r", ":", " ", "1", "2", "3">>

MetaNoToken ==
    <<"n", "o", " ", "t", "o", "k", "e", "n", "s", " ", "h", "e", "r", "e">>

MetaDepthBoth ==
    <<"I", "n", "s", "t", "a", "l", "l", "a", "t", "i", "o", "n", "D", "e", "p", "t",
      "h", "(", "m", ")", ":", " ", "1", ".", "5", ",", " ", "I", "n", "s", "t", "a",
      "l", "l", "a", "t", "i", "o", "n", "D", "e", "p", "t", "h", ":", " ", "3">>

MetaPointComma ==
    <<"M", "e", "a", "s", "u", "r", "e", "P", "o", "i", "n", "t", ":", " ", "A", ",",
      "B">>

MetaUnknownKey ==
    <<"U", "n", "k", "n", "o", "w", "n", ":", " ", "1", ",", " ", "M", "e", "a", "s",
      "u", "r", "e", "P", "o", "i", "n", "t", ":", " ", "Z", ",", " ", "M", "e", "a",
      "s", "u", "r", "e", "P", "o", "i", "n", "t", ":", " ", "Y">>

MetaDepthRow ==
    <<"2", "0", "2", "3", "-", "0", "5", "-", "0", "1", "\t", "1", "0", ":", "0", "5",
      "\t", "1", "2", ",", "5">>

MetaPool ==
    {MetaScenarioA, MetaDepthComma, MetaEmptyPoint, MetaNoPoint, MetaNoToken,
     MetaDepthBoth, MetaPointComma, MetaUnknownKey, <<>>}

\* a metadata line alone, or followed by a header and a data row
MetaTexts ==
    MetaPool
    \cup {m \o <<"\n">> \o HeaderLine \o <<"\n">> \o MetaDepthRow : m \in MetaPool}

PathPlain ==
    <<"B", "H", "-", "7", ".", "p", "v", "t">>

PathNested ==
    <<"l", "o", "g", "s", "/", "P", "2", ".", "a", ".", "p", "v", "t">>

PathDotfile ==
    <<".", "p", "v", "t">>

KeyCamel ==
    <<"S", "e", "r", "i", "e", "N", "u", "m", "b", "e", "r">>

KeyUpper ==
    <<"S", "E", "R", "I", "E", "N", "U", "M", "B", "E", "R">>

Value42 ==
    <<"4", "2">>

FilePaths == {PathPlain, PathNested, PathDotfile}

Decorations == {" ", "_", "-"}

\* the key with one more decoration character inserted anywhere
Decorate(key) ==
    {SubSeq(key, 1, i) \o <<c>> \o SubSeq(key, i + 1, Len(key)) :
        i \in 0..Len(key), c \in Decorations}

RECURSIVE DecoratedUpTo(_, _)
DecoratedUpTo(keys, n) ==
    IF n = 0 THEN keys
    ELSE LET less == DecoratedUpTo(keys, n - 1)
         IN  less \cup UNION {Decorate(key) : key \in less}

\* spellings of the series-number key that differ in case and decoration only
KeyVariants == DecoratedUpTo({KeyCamel, KeyUpper, KeySerieNumber}, MaxDecor)

\* one-token metadata lines "<key>:<value>", with and without blanks round the value
KeyVariantTexts ==
    {key \o <<":">> \o pad \o Value42 \o pad : key \in KeyVariants, pad \in {<<>>, <<" ">>}}

(***************************************************************************)
(* State                                                                   *)
(***************************************************************************)
VARIABLES
    pc,            \* "start" before the call, "done" after it returned, "raised"
    file_path,     \* the argument of parse
    readable,      \* whether the file can be opened and read
    text,          \* the decoded content of the file
    lines,         \* the locals of _parse_text_file at its return
    meta_line,
    values,        \* the dict of _parse_metadata_line
    header_index,
    data_start,
    result,        \* what parse returned
    error,         \* the exception that left parse, "" if none
    value,         \* the argument of _coerce_float
    number         \* what _coerce_float returned

vars == <<pc, file_path, readable, text, lines, meta_line, values, header_index,
          data_start, result, error, value, number>>

parseVars == <<lines, meta_line, values, header_index, data_start, result, error>>

NoCall == /\ lines = <<>>
          /\ meta_line = <<>>
          /\ values = <<>>
          /\ header_index = -1
          /\ data_start = -1
          /\ result = <<>>
          /\ error = ""

(***************************************************************************)
(* parse(file_path)                                                        *)
(***************************************************************************)
Init ==
    /\ pc = "start"
    /\ \/ file_path = PathPlain /\ readable = TRUE /\ text \in StructuredTexts
       \/ file_path = PathPlain /\ readable = TRUE /\ text \in RowTexts
       \/ file_path = PathPlain /\ readable = TRUE /\ text \in KeyVariantTexts
       \/ file_path \in FilePaths /\ readable \in BOOLEAN /\ text \in MetaTexts
    /\ NoCall
    /\ value = None
    /\ number = None

\* an exception that nothing caught is in the place of a result
Propagates(r) ==
    \/ r.metadata.reading_time = ValueError
    \/ r.metadata.installation_depth = ValueError
    \/ \E i \in 1..Len(r.readings) :
           \/ r.readings[i].reading_time = ValueError
           \/ r.readings[i].pressure_mh2o = ValueError
           \/ r.readings[i].temperature_c = ValueError
           \/ r.readings[i].battery_pct = ValueError

\* _parse_text_file ends with the locals r: parse returns the list of the one
\* ParsedPiezometer, unless an exception left the function
Returns(r) ==
    IF Propagates(r)
    THEN /\ pc' = "raised"
         /\ error' = "ValueError"
         /\ UNCHANGED <<lines, meta_line, values, header_index, data_start, result>>
    ELSE /\ pc' = "done"
         /\ lines' = r.lines
         /\ meta_line' = r.meta_line
         /\ values' = r.values
         /\ header_index' = r.header_index
         /\ data_start' = r.data_start
         /\ result' = <<[metadata |-> r.metadata, readings |-> r.readings]>>
         /\ error' = ""

\* PVTParser.parse: read_text raises when the file cannot be read; otherwise the
\* list of the one ParsedPiezometer of _parse_text_file
parse ==
    /\ pc = "start"
    /\ IF ~readable
       THEN /\ pc' = "raised"
            /\ error' = "OSError"
            /\ UNCHANGED <<lines, meta_line, values, header_index, data_start, result>>
       ELSE Returns(ParseTextFile(text, file_path))
    /\ UNCHANGED <<file_path, readable, text, value, number>>

Next == parse

Spec == Init /\ [][Next]_vars

(***************************************************************************)
(* _coerce_float(value) on its own                                         *)
(***************************************************************************)
CoerceAlphabet == {"0", "1", ",", ".", "-", "e"}

CoerceExamples ==
    {FieldThousands, <<"1", ",", "2", "3", "4", ".", "5", "6">>, Field125, FieldAbc,
     FieldNaN, <<"I", "n", "f", "i", "n", "i", "t", "y">>, <<"1", "e", "9", "9", "9">>,
     <<" ", "1", ",", "5", " ">>, <<"1", "_", "0", ",", "5">>,
     <<"1", ",", "2", "3", "4", ",", "5", "6", "7">>}

CoerceInputs ==
    {Str(s) : s \in SeqsUpTo(CoerceAlphabet, MaxLen) \cup CoerceExamples} \cup {None}

InitCoerce ==
    /\ pc = "start"
    /\ value \in CoerceInputs
    /\ number = None
    /\ file_path = <<>>
    /\ readable = FALSE
    /\ text = <<>>
    /\ NoCall

coerce_float ==
    /\ pc = "start"
    /\ number' = CoerceFloat(value)
    /\ pc' = IF number' = ValueError THEN "raised" ELSE "done"
    /\ UNCHANGED <<file_path, readable, text, value>>
    /\ UNCHANGED parseVars

NextCoerce == coerce_float

SpecCoerce == InitCoerce /\ [][NextCoerce]_vars

(***************************************************************************)
(* Properties                                                              *)
(***************************************************************************)
Done == pc = "done"

Readings == result[1].readings

Metadata == result[1].metadata

\* the lines from the data start on, as 1-based indices into lines
DataRows == IF header_index = -1 THEN {} ELSE {i \in 1..Len(lines) : i > data_start}

RowFields(i) == Split(lines[i], "\t")

\* the timestamp of line i as the format defines it: field 0 and field 1, both
\* non-empty, joined by a blank; None if they give no timestamp
RowTimestamp(i) ==
    IF Len(RowFields(i)) < 2 THEN None
    ELSE IF RowFields(i)[1] = <<>> \/ RowFields(i)[2] = <<>> THEN None
    ELSE ParseDatetimeValue(Str(Strip(RowFields(i)[1]) \o <<" ">> \o Strip(RowFields(i)[2])))

ValidRows == {i \in DataRows : RowTimestamp(i) # None}

\* the j-th data row, in file order, that has a timestamp
NthValid(j) == CHOOSE i \in ValidRows : Cardinality({x \in ValidRows : x < i}) = j - 1

\* C1: every reading of a returned result has a timestamp, and a data row whose
\* date and time fields give no timestamp (too few fields, an empty date or time,
\* an unparsable combination) contributes no reading: each reading carries the
\* timestamp of a row that has one, and there are no more readings than such rows
C1_ReadingsHaveTimestamps ==
    Done =>
        /\ \A j \in 1..Len(Readings) :
               /\ Readings[j].reading_time # None
               /\ Readings[j].reading_time.k = "datetime"
               /\ \E i \in ValidRows : Readings[j].reading_time = RowTimestamp(i)
        /\ Len(Readings) <= Cardinality(ValidRows)

\* a reading was kept while a non-blank data row without a timestamp was dropped
C1_Witness ==
    /\ Done
    /\ Len(Readings) >= 1
    /\ \E i \in DataRows :
           /\ Len(RowFields(i)) >= 2
           /\ RowFields(i)[1] # <<>>
           /\ RowTimestamp(i) = None

\* C2 (as claimed): when the line right after the header is non-empty and
\* contains a parenthesis or begins with a tab, it is skipped as a units row:
\* the data starts at header_index + 2
C2_UnitsRowSkipped ==
    (/\ Done
     /\ header_index # -1
     /\ header_index + 1 < Len(lines)
     /\ Strip(lines[header_index + 2]) # <<>>
     /\ \/ Contains(lines[header_index + 2], "(")
        \/ lines[header_index + 2][1] = "\t")
    => data_start = header_index + 2

\* C3: the readings are, in file order, the data rows that have a timestamp: as
\* many readings as such rows, the j-th reading carrying the timestamp of the
\* j-th such row, whatever the chronological order of the rows
C3_OrderPreserved ==
    Done =>
        /\ Len(Readings) = Cardinality(ValidRows)
        /\ \A j \in 1..Len(Readings) :
               Readings[j].reading_time = RowTimestamp(NthValid(j))

\* two readings were returned whose timestamps run backwards (May, then April)
C3_Witness ==
    /\ Done
    /\ Len(Readings) >= 2
    /\ Readings[1].reading_time.M = 5
    /\ Readings[2].reading_time.M = 4

IsOptionalFloat(x) == x = None \/ x.k = "float"

WellFormedReading(r) ==
    /\ r.reading_time.k = "datetime"
    /\ IsOptionalFloat(r.pressure_mh2o)
    /\ IsOptionalFloat(r.temperature_c)
    /\ IsOptionalFloat(r.battery_pct)

WellFormedMetadata(m) ==
    /\ m.investigation_point \in Seq(STRING)
    /\ m.series_number = None \/ m.series_number.k = "str"
    /\ m.reading_time = None \/ m.reading_time.k = "datetime"
    /\ IsOptionalFloat(m.installation_depth)

\* C4: once parse has ended, for a readable file it has returned (it did not
\* raise) a list of exactly one result whose fields are values or None, never
\* an exception, a NaN or an infinity; it raises only when the file cannot be
\* read, and then the file-access error
C4_NeverRaisesOnContent ==
    pc # "start" =>
        IF readable
        THEN /\ pc = "done"
             /\ error = ""
             /\ Len(result) = 1
             /\ WellFormedMetadata(Metadata)
             /\ \A j \in 1..Len(Readings) : WellFormedReading(Readings[j])
        ELSE pc = "raised" /\ error = "OSError"

\* malformed content was absorbed: a row without timestamp was dropped and a
\* present but unparsable numeric field became None in a kept reading
C4_Witness ==
    /\ Done
    /\ \E i \in DataRows : Strip(lines[i]) # <<>> /\ RowTimestamp(i) = None
    /\ \E j \in 1..Len(Readings) :
           Len(RowFields(NthValid(j))) > 2 /\ Readings[j].pressure_mh2o = None

\* the decimal numeral with the digits ip before and fp after the separator
DecimalOf(ip, fp) ==
    IF Len(ip) + Len(fp) = 0 THEN None
    ELSE Normalize(IntOf(ip \o fp), 0 - Len(fp))

Count(s, c) == Cardinality({i \in 1..Len(s) : s[i] = c})

OnlyDigitsAndSeparators(s) == \A i \in 1..Len(s) : IsDigit(s[i]) \/ s[i] \in {Comma, Dot}

\* what the separator rule asks for a string s of digits, commas and dots that
\* holds a comma: the separator d that occurs last is the decimal separator,
\* the other one is dropped; more than one d leaves no number
ExpectedNumber(s, d) ==
    IF Count(s, d) # 1 THEN None
    ELSE DecimalOf(SelectSeq(SubSeq(s, 1, RFind(s, d)), IsDigit),
                   SubSeq(s, RFind(s, d) + 2, Len(s)))

DecimalSeparator(s) ==
    IF ~Contains(s, Dot) \/ RFind(s, Comma) > RFind(s, Dot) THEN Comma ELSE Dot

FieldThousandsComma ==
    <<"1", ",", "2", "3", "4", ".", "5", "6">>

FieldInfinity ==
    <<"I", "n", "f", "i", "n", "i", "t", "y">>

FieldTwoCommas ==
    <<"1", ",", "2", "3", "4", ",", "5", "6", "7">>

\* C5: the numeric coercion of a string treats, of comma and dot, the one that
\* occurs last as the decimal separator and drops the other; a lone comma is the
\* decimal separator; and whatever does not read as a finite number gives None:
\* no exception, no NaN, no infinity
C5_CoerceFloat ==
    (pc # "start" /\ value # None) =>
        /\ pc = "done"
        /\ IsOptionalFloat(number)
        /\ value.s = FieldThousands => number = Float(123456, -2)
        /\ value.s = FieldThousandsComma => number = Float(123456, -2)
        /\ value.s = Field125 => number = Float(125, -1)
        /\ value.s \in {FieldAbc, FieldNaN, FieldInfinity, FieldTwoCommas} => number = None
        /\ (OnlyDigitsAndSeparators(Strip(value.s)) /\ Contains(value.s, Comma)) =>
               number = ExpectedNumber(Strip(value.s), DecimalSeparator(Strip(value.s)))

\* "1.234,56" was coerced to 1234.56
C5_Witness ==
    pc = "done" /\ value = Str(FieldThousands) /\ number = Float(123456, -2)

\* the numeric field n (1-based) of the fields of a row: None when the row has
\* no such field
FieldNumber(fields, n) == IF Len(fields) < n THEN None ELSE CoerceFloat(Str(fields[n]))

\* C6: every data row with a timestamp gives a reading, and each of pressure,
\* temperature and battery of that reading depends on its own field alone
\* (fields 2, 3 and 4): None when the field is absent, unparsable or not
\* finite, its number otherwise
C6_FieldsIndependent ==
    Done =>
        /\ Len(Readings) = Cardinality(ValidRows)
        /\ \A j \in 1..Len(Readings) :
               /\ Readings[j].pressure_mh2o = FieldNumber(RowFields(NthValid(j)), 3)
               /\ Readings[j].temperature_c = FieldNumber(RowFields(NthValid(j)), 4)
               /\ Readings[j].battery_pct = FieldNumber(RowFields(NthValid(j)), 5)
               /\ IsOptionalFloat(Readings[j].pressure_mh2o)
               /\ IsOptionalFloat(Readings[j].temperature_c)
               /\ IsOptionalFloat(Readings[j].battery_pct)

\* a kept reading with an unparsable pressure (None), a good temperature (12.5)
\* and no battery field at all (None)
C6_Witness ==
    /\ Done
    /\ \E j \in 1..Len(Readings) :
           /\ Len(RowFields(NthValid(j))) = 4
           /\ RowFields(NthValid(j))[3] = FieldAbc
           /\ Readings[j].pressure_mh2o = None
           /\ Readings[j].temperature_c = Float(125, -1)
           /\ Readings[j].battery_pct = None

\* the lines whose stripped, lowercased text starts with "date"
HeaderLines ==
    {i \in 1..Len(lines) : StartsWith(Lower(Strip(lines[i])), <<"d", "a", "t", "e">>)}

NonBlankLines == {i \in 1..Len(lines) : Strip(lines[i]) # <<>>}

Least(S) == CHOOSE i \in S : \A x \in S : i <= x

\* C7: the header is the first of all lines, the metadata line included, with
\* the "date" prefix, whichever line is the metadata line; only lines after it
\* give readings; without any such line the metadata is that of the metadata
\* line and there is no reading
C7_HeaderDetection ==
    Done =>
        /\ header_index = IF HeaderLines = {} THEN -1 ELSE Least(HeaderLines) - 1
        /\ meta_line = IF NonBlankLines = {} THEN <<>> ELSE Strip(lines[Least(NonBlankLines)])
        /\ \A j \in 1..Len(Readings) :
               \E i \in (header_index + 2)..Len(lines) :
                   Readings[j].reading_time = RowTimestamp(i)
        /\ Len(Readings) <= Len(lines) - (header_index + 1)
        /\ Metadata = ParseMetadataLine(meta_line, file_path)
        /\ HeaderLines = {} => Readings = <<>>

\* the metadata line is the header line too, and the row after it was read
C7_Witness ==
    /\ Done
    /\ header_index = 0
    /\ meta_line = Strip(lines[1])
    /\ Len(Readings) >= 1

\* C8 (as claimed): investigation_point is the value of the "measurepoint" key
\* whenever that key is present, else the stem of the file name, and it is
\* never empty
C8_InvestigationPoint ==
    Done =>
        /\ Metadata.investigation_point =
               IF KeyMeasurePoint \in DOMAIN values
               THEN values[KeyMeasurePoint]
               ELSE PathStem(file_path)
        /\ Metadata.investigation_point # <<>>

\* C8 (amended): investigation_point is the value of the "measurepoint" key when
\* that key is present with a non-empty value, else (key absent, or its value
\* empty) the stem of the file name; it is never empty
C8_InvestigationPointAmended ==
    Done =>
        /\ Metadata.investigation_point =
               IF KeyMeasurePoint \in DOMAIN values /\ values[KeyMeasurePoint] # <<>>
               THEN values[KeyMeasurePoint]
               ELSE PathStem(file_path)
        /\ Metadata.investigation_point # <<>>

\* a "MeasurePoint:" token with an empty value gave the stem of the file name
C8_Witness ==
    /\ Done
    /\ KeyMeasurePoint \in DOMAIN values
    /\ values[KeyMeasurePoint] = <<>>
    /\ Metadata.investigation_point = PathStem(file_path)
    /\ Metadata.investigation_point # <<>>

\* the tokens of the metadata line that hold a colon
KeyedTokens(line) == SelectSeq(MetadataParts(line), LAMBDA part : Contains(part, ":"))

TokenKey(token) == SubSeq(token, 1, Find(token, ":"))

TokenValue(token) == Strip(SubSeq(token, Find(token, ":") + 2, Len(token)))

\* C9: spellings of a key that differ only in case and in non-alphanumeric
\* characters name the same metadata field: every such spelling of the
\* series-number key gives series_number "42"; and the value a key gets is the
\* text after the first colon of its (last) token, stripped
C9_KeyNormalization ==
    Done =>
        /\ text \in KeyVariantTexts =>
               /\ Metadata.series_number = Str(Value42)
               /\ DOMAIN values = {KeySerieNumber}
        /\ \A n \in 1..Len(KeyedTokens(meta_line)) :
               LET token == KeyedTokens(meta_line)[n]
               IN  (\A later \in (n + 1)..Len(KeyedTokens(meta_line)) :
                        NormalizeKey(TokenKey(KeyedTokens(meta_line)[later]))
                            # NormalizeKey(TokenKey(token)))
                   => /\ NormalizeKey(TokenKey(token)) \in DOMAIN values
                      /\ values[NormalizeKey(TokenKey(token))] = TokenValue(token)

SerieNumberSpaced ==
    <<"s", "e", "r", "i", "e", " ", "n", "u", "m", "b", "e", "r", ":", "4", "2">>

\* the token "serie number:42" gave series_number "42"
C9_Witness ==
    /\ Done
    /\ text = SerieNumberSpaced
    /\ Metadata.series_number = Str(Value42)

\* C10: no value of the metadata dict holds a comma, so the comma rule of the
\* numeric coercion changes none of them: "InstallationDepth: 12,5" gives the
\* depth 12.0, while the field "12,5" of a data row gives 12.5
C10_NoCommaInMetadata ==
    Done =>
        /\ \A key \in DOMAIN values :
               ~Contains(values[key], Comma) /\ CleanNumber(values[key]) = values[key]
        /\ meta_line = MetaDepthComma =>
               /\ Metadata.installation_depth = Float(12, 0)
               /\ Metadata.installation_depth # Float(125, -1)
        /\ \A j \in 1..Len(Readings) :
               (/\ Len(RowFields(NthValid(j))) > 2
                /\ RowFields(NthValid(j))[3] = Field125)
               => Readings[j].pressure_mh2o = Float(125, -1)

\* one file gave the depth 12.0 from "InstallationDepth: 12,5" and the pressure
\* 12.5 from the field "12,5"
C10_Witness ==
    /\ Done
    /\ meta_line = MetaDepthComma
    /\ Metadata.installation_depth = Float(12, 0)
    /\ Len(Readings) = 1
    /\ RowFields(NthValid(1))[3] = Field125
    /\ Readings[1].pressure_mh2o = Float(125, -1)

====
